---------------------------- MODULE Spec2Model ----------------------------
(***************************************************************************)
(* Model of addons/mail/models/mail_render_mixin.py (MailRenderMixin):     *)
(*   - _render_template / _render_template_jinja /                         *)
(*     _render_template_postprocess, as a step machine per render call;    *)
(*   - _build_expression, as an operator on character sequences;           *)
(*   - _onchange_dynamic_placeholder, as a reducer on the assistant's      *)
(*     five form fields.                                                   *)
(* Python strings are sequences: of characters for placeholder             *)
(* expressions, of text pieces for templates and rendered output.          *)
(***************************************************************************)
EXTENDS Integers, Sequences, FiniteSets, TLC

VARIABLES
    pc,          \* per call: position in _render_template
    args,        \* per call: template_txt, res_ids, engine, post_process, safe
    results,     \* per call: the dict `results` / `rendered`
    template,    \* per call: the loaded jinja template (its source pieces)
    variables,   \* per call: the dict `variables` handed to template.render
    records,     \* per call: the recordset of browse(res_ids), in order
    idx,         \* per call: position of the for loop over the recordset
    todo,        \* per call: keys rendered.items() has still to yield
    outcome,     \* per call: what the caller gets (a dict or an exception)
    trace,       \* per call: history of collaborator calls made so far
    field_name, sub_field_name, null_arg, expression, built,
                 \* one invocation of _build_expression and its result
    model_object_field, sub_object, sub_model_object_field, null_value,
    copyvalue    \* the five fields of the placeholder assistant

renderVars == <<pc, args, results, template, variables, records, idx, todo,
                outcome, trace>>
buildVars == <<field_name, sub_field_name, null_arg, expression, built>>
formVars == <<model_object_field, sub_object, sub_model_object_field,
              null_value, copyvalue>>
vars == <<renderVars, buildVars, formVars>>

(***************************************************************************)
(* Bounds of the model.                                                    *)
(***************************************************************************)
MaxIds == 3        \* longest res_ids list of a sequential render call
MaxConcIds == 2    \* longest res_ids list of a concurrent render call
MaxLit == 2        \* longest default literal (null_value), in characters

(***************************************************************************)
(* Python values.                                                          *)
(***************************************************************************)
\* False, as stored in an unset Char / Many2one field or passed for "absent".
\* Real strings hold one-character or text pieces, never this marker.
PyFalse == <<"<False>">>
\* None inside a list of ids; database ids are positive.
None == 0
Truthy(v) == v # PyFalse /\ v # <<>>
Range(s) == {s[i] : i \in DOMAIN s}
IsStr(v) == v # PyFalse /\ v \in Seq(STRING)

RECURSIVE Concat(_)
Concat(ss) == IF ss = <<>> THEN <<>> ELSE Head(ss) \o Concat(Tail(ss))

\* keys of dict.fromkeys(seq) in insertion order: first occurrences
RECURSIVE KeyOrder(_)
KeyOrder(s) ==
    IF s = <<>> THEN <<>>
    ELSE LET rest == KeyOrder(SubSeq(s, 1, Len(s) - 1))
             last == s[Len(s)]
         IN IF last \in Range(rest) THEN rest ELSE Append(rest, last)

EmptyDict == [k \in {} |-> <<>>]
\* variant: falsy ids filtered out, as in the commented-out browse of line 198
FromKeysDropFalsy(ids, v) == [k \in Range(ids) \ {None} |-> v]
\* dict.fromkeys(res_ids, u"")
FromKeys(ids, v) == [k \in Range(ids) |-> v]

\* results[key] = value (the key is added when absent)
DictSet(d, key, value) ==
    [k \in DOMAIN d \cup {key} |-> IF k = key THEN value ELSE d[k]]

(***************************************************************************)
(* The record store behind self.env[model].browse: records 1, 2 and 3    *)
(* exist, any other id browses to a record whose fields cannot be read.   *)
(***************************************************************************)
Existing == {1, 2, 3}
RecordName(id) ==
    IF id = 1 THEN <<"Ann">>
    ELSE IF id = 2 THEN <<"<", "Bob", ">">> ELSE <<"Cy">>
RecordActive(id) == id = 1
Browse(ids) == ids

(***************************************************************************)
(* jinja: loading (from_string) and rendering (template.render) over the  *)
(* template texts of the model.  A text is a sequence of pieces: literal  *)
(* text, or one of the expressions ${object.name}, ${object.active}; the  *)
(* piece "${" is an expression that is never closed.                      *)
(***************************************************************************)
EscapePiece(p) == IF p = "<" THEN "&lt;" ELSE IF p = ">" THEN "&gt;" ELSE p
Escape(s) == [i \in DOMAIN s |-> EscapePiece(s[i])]

Compiles(txt) == "${" \notin Range(txt)

\* the value of one piece under the bindings vs
PieceOk(p, vs) ==
    p \in {"${object.name}", "${object.active}"} => vs["object"] \in Existing
PieceOut(p, vs, autoescape) ==
    IF p = "${object.name}"
    THEN IF autoescape THEN Escape(RecordName(vs["object"]))
                       ELSE RecordName(vs["object"])
    ELSE IF p = "${object.active}"
    THEN IF RecordActive(vs["object"]) THEN <<"True">> ELSE <<"False">>
    ELSE <<p>>

\* template.render(variables): the text, or the exception raised
TemplateRender(tpl, vs, autoescape) ==
    IF \A i \in DOMAIN tpl : PieceOk(tpl[i], vs)
    THEN [ok |-> TRUE, err |-> "",
          out |-> Concat([i \in DOMAIN tpl |-> PieceOut(tpl[i], vs, autoescape)])]
    ELSE [ok |-> FALSE, err |-> "Record does not exist or has been deleted.",
          out |-> <<>>]

\* mail.thread._replace_local_links: site-relative links become absolute
ReplaceLocalLink(p) == IF p = "href='/web'" THEN "href='http://base/web'" ELSE p
ReplaceLocalLinks(html) == [i \in DOMAIN html |-> ReplaceLocalLink(html[i])]

(***************************************************************************)
(* Render calls.                                                           *)
(***************************************************************************)
Calls == {1, 2}

NoArgs == [template_txt |-> <<>>, res_ids |-> [isList |-> TRUE, ids |-> <<>>],
           engine |-> "jinja", post_process |-> FALSE, safe |-> FALSE]
NoOutcome == [kind |-> "none"]
Return(d) == [kind |-> "return", value |-> d]
Raise(exc, msg) == [kind |-> "raise", exc |-> exc, msg |-> msg]

\* _render_jinja_eval_context(): helpers, user and ctx; no 'object' yet
EvalContext ==
    [k \in {"format_date", "format_datetime", "format_amount",
            "format_duration", "user", "ctx"} |-> k]

\* variant: the binding of an earlier record is kept
BindObjectOnce(vs, record) ==
    IF "object" \in DOMAIN vs THEN vs
    ELSE [k \in DOMAIN vs \cup {"object"} |->
            IF k = "object" THEN record ELSE vs[k]]
\* variables['object'] = record
BindObject(vs, record) ==
    [k \in DOMAIN vs \cup {"object"} |-> IF k = "object" THEN record ELSE vs[k]]

\* variant: the engine guard is missing
ListOnly(a) == a.res_ids.isList
\* the two guards of _render_template
ValidArgs(a) == a.res_ids.isList /\ a.engine = "jinja"

\* variant: a failing record is skipped and the loop goes on
NeverRaised(r) == FALSE
\* the except clause around template.render
Raised(r) == ~r.ok

\* variant: post-processing whatever the flag
Always(a) == TRUE
\* if post_process:
PostProcessRequested(a) == a.post_process

Event(c, kind, id) == trace' = [trace EXCEPT ![c] = Append(@, <<kind, id>>)]

Finish(c, o) ==
    /\ outcome' = [outcome EXCEPT ![c] = o]
    /\ pc' = [pc EXCEPT ![c] = "done"]

\* a caller invokes _render_template(template_txt, model, res_ids, engine, post_process)
Call(c, a) ==
    /\ pc[c] = "idle"
    /\ args' = [args EXCEPT ![c] = a]
    /\ pc' = [pc EXCEPT ![c] = "validate"]
    /\ UNCHANGED <<results, template, variables, records, idx, todo, outcome,
                   trace, buildVars, formVars>>

\* lines 243-246
Validate(c) ==
    /\ pc[c] = "validate"
    /\ IF ~ValidArgs(args[c])
       THEN Finish(c, Raise("ValueError",
                IF ~args[c].res_ids.isList
                THEN "Template rendering should be called only using on a list of IDs."
                ELSE "Template rendering supports only jinja."))
       ELSE /\ pc' = [pc EXCEPT ![c] = "jinja"]
            /\ UNCHANGED outcome
    /\ UNCHANGED <<args, results, template, variables, records, idx, todo,
                   trace, buildVars, formVars>>

\* lines 182-185: results = dict.fromkeys(res_ids, u""); empty text returns it
JinjaStart(c) ==
    /\ pc[c] = "jinja"
    /\ results' = [results EXCEPT ![c] = FromKeys(args[c].res_ids.ids, <<>>)]
    /\ pc' = [pc EXCEPT ![c] =
                IF Truthy(args[c].template_txt) THEN "load" ELSE "rendered"]
    /\ UNCHANGED <<args, template, variables, records, idx, todo, outcome,
                   trace, buildVars, formVars>>

\* lines 188-193: from_string; a failure is logged and results returned
LoadTemplate(c) ==
    /\ pc[c] = "load"
    /\ IF Compiles(args[c].template_txt)
       THEN /\ template' = [template EXCEPT ![c] = args[c].template_txt]
            /\ Event(c, "compile", None)
            /\ pc' = [pc EXCEPT ![c] = "prepare"]
       ELSE /\ Event(c, "log", None)
            /\ pc' = [pc EXCEPT ![c] = "rendered"]
            /\ UNCHANGED template
    /\ UNCHANGED <<args, results, variables, records, idx, todo, outcome,
                   buildVars, formVars>>

\* lines 196-202: the evaluation context, the None check, browse(res_ids)
Prepare(c) ==
    /\ pc[c] = "prepare"
    /\ variables' = [variables EXCEPT ![c] = EvalContext]
    /\ IF \E i \in DOMAIN args[c].res_ids.ids : args[c].res_ids.ids[i] = None
       THEN /\ Finish(c, Raise("ValueError", "Unsuspected None"))
            /\ UNCHANGED <<records, idx, trace>>
       ELSE /\ records' = [records EXCEPT ![c] = Browse(args[c].res_ids.ids)]
            /\ idx' = [idx EXCEPT ![c] = 1]
            /\ Event(c, "browse", None)
            /\ pc' = [pc EXCEPT ![c] = "loop"]
            /\ UNCHANGED outcome
    /\ UNCHANGED <<args, results, template, todo, buildVars, formVars>>

\* lines 202-211: one iteration of the loop over the recordset
RenderRecord(c) ==
    /\ pc[c] = "loop"
    /\ idx[c] <= Len(records[c])
    /\ LET record == records[c][idx[c]]
           bound == BindObject(variables[c], record)
           r == TemplateRender(template[c], bound, ~args[c].safe)
       IN /\ variables' = [variables EXCEPT ![c] = bound]
          /\ IF Raised(r)
             THEN /\ trace' = [trace EXCEPT ![c] =
                         @ \o <<(<<"eval", record>>), (<<"log", None>>)>>]
                  /\ Finish(c, Raise("UserError",
                         <<"Failed to render template : ", r.err>>))
                  /\ UNCHANGED <<results, idx>>
             ELSE /\ Event(c, "eval", record)
                  /\ results' = [results EXCEPT ![c] =
                         DictSet(@, record,
                                 IF r.out = <<"False">> THEN <<>> ELSE r.out)]
                  /\ idx' = [idx EXCEPT ![c] = @ + 1]
                  /\ UNCHANGED <<pc, outcome>>
    /\ UNCHANGED <<args, template, records, todo, buildVars, formVars>>

\* line 213: the loop is over, _render_template_jinja returns results
LoopDone(c) ==
    /\ pc[c] = "loop"
    /\ idx[c] > Len(records[c])
    /\ pc' = [pc EXCEPT ![c] = "rendered"]
    /\ UNCHANGED <<args, results, template, variables, records, idx, todo,
                   outcome, trace, buildVars, formVars>>

\* lines 248-252: back in _render_template with rendered
Rendered(c) ==
    /\ pc[c] = "rendered"
    /\ IF PostProcessRequested(args[c])
       THEN /\ todo' = [todo EXCEPT ![c] = KeyOrder(args[c].res_ids.ids)]
            /\ pc' = [pc EXCEPT ![c] = "postprocess"]
            /\ UNCHANGED outcome
       ELSE /\ Finish(c, Return(results[c]))
            /\ UNCHANGED todo
    /\ UNCHANGED <<args, results, template, variables, records, idx, trace,
                   buildVars, formVars>>

\* lines 225-226: one item of rendered.items()
PostprocessItem(c) ==
    /\ pc[c] = "postprocess"
    /\ todo[c] # <<>>
    /\ LET res_id == Head(todo[c])
       IN /\ results' = [results EXCEPT ![c] =
                 DictSet(@, res_id, ReplaceLocalLinks(results[c][res_id]))]
          /\ Event(c, "postprocess", res_id)
    /\ todo' = [todo EXCEPT ![c] = Tail(@)]
    /\ UNCHANGED <<pc, args, template, variables, records, idx, outcome,
                   buildVars, formVars>>

\* lines 227 and 252
PostprocessDone(c) ==
    /\ pc[c] = "postprocess"
    /\ todo[c] = <<>>
    /\ Finish(c, Return(results[c]))
    /\ UNCHANGED <<args, results, template, variables, records, idx, todo,
                   trace, buildVars, formVars>>

\* the caller has its answer: the call's locals are gone
Forget(c) ==
    /\ pc[c] = "done"
    /\ pc' = [pc EXCEPT ![c] = "idle"]
    /\ args' = [args EXCEPT ![c] = NoArgs]
    /\ results' = [results EXCEPT ![c] = EmptyDict]
    /\ template' = [template EXCEPT ![c] = <<>>]
    /\ variables' = [variables EXCEPT ![c] = EmptyDict]
    /\ records' = [records EXCEPT ![c] = <<>>]
    /\ idx' = [idx EXCEPT ![c] = 0]
    /\ todo' = [todo EXCEPT ![c] = <<>>]
    /\ outcome' = [outcome EXCEPT ![c] = NoOutcome]
    /\ trace' = [trace EXCEPT ![c] = <<>>]
    /\ UNCHANGED <<buildVars, formVars>>

(***************************************************************************)
(* _build_expression.  Strings are sequences of characters.               *)
(***************************************************************************)
S_name == <<"n", "a", "m", "e">>
S_partner_id == <<"p", "a", "r", "t", "n", "e", "r", "_", "i", "d">>
S_email == <<"e", "m", "a", "i", "l">>
S_NA == <<"N", "/", "A">>
S_open == <<"$", "{", "o", "b", "j", "e", "c", "t", ".">>
S_or == <<" ", "o", "r", " ">>
S_quotes == <<"'", "'", "'">>

\* "%s" % v
PercentS(v) == IF v = PyFalse THEN <<"F", "a", "l", "s", "e">> ELSE v

\* variant: the "." is appended whether or not a sub-field is given
BuildExpressionAlwaysDot(f, s, n) ==
    IF Truthy(f)
    THEN S_open \o f \o <<".">> \o (IF Truthy(s) THEN s ELSE <<>>)
         \o (IF Truthy(n) THEN S_or \o S_quotes \o PercentS(n) \o S_quotes
                          ELSE <<>>)
         \o <<"}">>
    ELSE <<>>
\* lines 132-140
BuildExpression(f, s, n) ==
    IF Truthy(f)
    THEN S_open \o f
         \o (IF Truthy(s) THEN <<".">> \o s ELSE <<>>)
         \o (IF Truthy(n) THEN S_or \o S_quotes \o PercentS(n) \o S_quotes
                          ELSE <<>>)
         \o <<"}">>
    ELSE <<>>

\* one call of _build_expression on the arguments drawn at the start
Build ==
    /\ ~built
    /\ expression' = BuildExpression(field_name, sub_field_name, null_arg)
    /\ built' = TRUE
    /\ UNCHANGED <<field_name, sub_field_name, null_arg, renderVars, formVars>>

(***************************************************************************)
(* _onchange_dynamic_placeholder.  The assistant's Many2one fields hold   *)
(* an ir.model.fields record (or none), sub_object an ir.model (or none). *)
(***************************************************************************)
NoField == [name |-> PyFalse, ttype |-> "", relation |-> ""]
F_name == [name |-> S_name, ttype |-> "char", relation |-> ""]
F_partner_id == [name |-> S_partner_id, ttype |-> "many2one",
                 relation |-> "res.partner"]
F_tag_ids == [name |-> <<"t", "a", "g", "s">>, ttype |-> "many2many",
              relation |-> "res.tag"]
F_x_old == [name |-> <<"x">>, ttype |-> "one2many", relation |-> "x.old"]
F_email == [name |-> S_email, ttype |-> "char", relation |-> ""]

NoModel == "False"
\* the models ir.model knows; x.old has no ir.model row
Registered == {"res.partner", "res.tag"}
\* self.env['ir.model']._get(name): the model, or an empty recordset
IrModelGet(name) == IF name \in Registered THEN name ELSE NoModel

Form(f, so, sf, nv, cv) ==
    [model_object_field |-> f, sub_object |-> so,
     sub_model_object_field |-> sf, null_value |-> nv, copyvalue |-> cv]

OrFalse(v) == IF Truthy(v) THEN v ELSE PyFalse

\* lines 105-121, as a function of the form's values
Onchange(s) ==
    IF s.model_object_field # NoField
    THEN IF s.model_object_field.ttype \in {"many2one", "one2many", "many2many"}
         THEN LET model == IrModelGet(s.model_object_field.relation)
              IN IF model # NoModel
                 THEN [s EXCEPT
                         !.sub_object = model,
                         !.copyvalue = BuildExpression(
                             s.model_object_field.name,
                             s.sub_model_object_field.name,
                             OrFalse(s.null_value))]
                 ELSE s
         ELSE [s EXCEPT
                 !.sub_object = NoModel,
                 !.sub_model_object_field = NoField,
                 !.copyvalue = BuildExpression(s.model_object_field.name,
                                               PyFalse, OrFalse(s.null_value))]
    ELSE Form(NoField, NoModel, NoField, PyFalse, PyFalse)

CurrentForm == Form(model_object_field, sub_object, sub_model_object_field,
                    null_value, copyvalue)

SetForm(s) ==
    /\ model_object_field' = s.model_object_field
    /\ sub_object' = s.sub_object
    /\ sub_model_object_field' = s.sub_model_object_field
    /\ null_value' = s.null_value
    /\ copyvalue' = s.copyvalue

\* the user picks (or clears) the field; the onchange runs
ChangeField(f) ==
    /\ f # model_object_field
    /\ SetForm(Onchange([CurrentForm EXCEPT !.model_object_field = f]))
    /\ UNCHANGED <<renderVars, buildVars>>

\* the user picks (or clears) the sub-field; the onchange runs
ChangeSubField(sf) ==
    /\ sf # sub_model_object_field
    /\ SetForm(Onchange([CurrentForm EXCEPT !.sub_model_object_field = sf]))
    /\ UNCHANGED <<renderVars, buildVars>>

\* the user types (or clears) the default value; the onchange runs
ChangeNullValue(nv) ==
    /\ nv # null_value
    /\ SetForm(Onchange([CurrentForm EXCEPT !.null_value = nv]))
    /\ UNCHANGED <<renderVars, buildVars>>

(***************************************************************************)
(* Inputs.                                                                 *)
(***************************************************************************)
SeqsUpTo(S, n) == UNION {[1..k -> S] : k \in 0..n}

T_bad == <<"Hi ", "${">>
T_name == <<"Hi ", "${object.name}">>
T_active == <<"${object.active}">>
T_link == <<"href='/web'", "${object.name}">>
Templates == {PyFalse, <<>>, T_bad, T_name, T_active, T_link}

Scalar == [isList |-> FALSE, ids |-> <<1>>]
List(s) == [isList |-> TRUE, ids |-> s]

CallArgs ==
    [template_txt : Templates,
     res_ids : {Scalar} \cup {List(s) : s \in SeqsUpTo({None, 1, 2, 3, 4}, MaxIds)},
     engine : {"jinja", "qweb"},
     post_process : BOOLEAN,
     safe : BOOLEAN]

\* concurrent calls: well-formed requests on template texts that load
ConcArgs ==
    [template_txt : {T_name, T_active, T_link},
     res_ids : {List(s) : s \in SeqsUpTo({1, 2, 3, 4}, MaxConcIds)},
     engine : {"jinja"},
     post_process : BOOLEAN,
     safe : BOOLEAN]

\* the other calls in flight render the same text, with the same options,
\* on other records
Compatible(c, a) ==
    \A d \in Calls \ {c} :
        pc[d] # "idle" =>
            /\ args[d].template_txt = a.template_txt
            /\ args[d].safe = a.safe
            /\ args[d].post_process = a.post_process
            /\ Range(args[d].res_ids.ids) \cap Range(a.res_ids.ids) = {}

LitChars == {"N", "'", "}"}
FieldNames == {PyFalse, <<>>, S_name, S_partner_id}
SubFieldNames == {PyFalse, <<>>, S_email}
NullValues == {PyFalse, S_NA} \cup SeqsUpTo(LitChars, MaxLit)

FormFields == {NoField, F_name, F_partner_id, F_tag_ids, F_x_old}
FormSubFields == {NoField, F_email, F_name}
FormNullValues == {PyFalse, S_NA, <<"'">>}

(***************************************************************************)
(* Specifications.                                                         *)
(***************************************************************************)
RenderIdle ==
    /\ pc = [c \in Calls |-> "idle"]
    /\ args = [c \in Calls |-> NoArgs]
    /\ results = [c \in Calls |-> EmptyDict]
    /\ template = [c \in Calls |-> <<>>]
    /\ variables = [c \in Calls |-> EmptyDict]
    /\ records = [c \in Calls |-> <<>>]
    /\ idx = [c \in Calls |-> 0]
    /\ todo = [c \in Calls |-> <<>>]
    /\ outcome = [c \in Calls |-> NoOutcome]
    /\ trace = [c \in Calls |-> <<>>]

BuildIdle ==
    /\ field_name = PyFalse
    /\ sub_field_name = PyFalse
    /\ null_arg = PyFalse
    /\ expression = <<>>
    /\ built = FALSE

FormIdle ==
    /\ model_object_field = NoField
    /\ sub_object = NoModel
    /\ sub_model_object_field = NoField
    /\ null_value = PyFalse
    /\ copyvalue = PyFalse

Step(c) ==
    \/ Validate(c)
    \/ JinjaStart(c)
    \/ LoadTemplate(c)
    \/ Prepare(c)
    \/ RenderRecord(c)
    \/ LoopDone(c)
    \/ Rendered(c)
    \/ PostprocessItem(c)
    \/ PostprocessDone(c)
    \/ Forget(c)

\* one render call at a time, on any request
InitRender == RenderIdle /\ BuildIdle /\ FormIdle
NextRender ==
    \/ /\ pc[1] = "idle"
       /\ \E a \in CallArgs : Call(1, a)
    \/ Step(1)
SpecRender == InitRender /\ [][NextRender]_vars

\* two render calls in flight at once
InitConc == RenderIdle /\ BuildIdle /\ FormIdle
NextConc ==
    \E c \in Calls :
        \/ /\ pc[c] = "idle"
           /\ \E a \in ConcArgs : Compatible(c, a) /\ Call(c, a)
        \/ Step(c)
SpecConc == InitConc /\ [][NextConc]_vars

\* _build_expression on every argument triple
InitBuild ==
    /\ RenderIdle /\ FormIdle
    /\ field_name \in FieldNames
    /\ sub_field_name \in SubFieldNames
    /\ null_arg \in NullValues
    /\ expression = <<>>
    /\ built = FALSE
NextBuild == Build
SpecBuild == InitBuild /\ [][NextBuild]_vars

\* the placeholder assistant, from a new form
InitForm == RenderIdle /\ BuildIdle /\ FormIdle
NextForm ==
    \/ \E f \in FormFields : ChangeField(f)
    \/ \E sf \in FormSubFields : ChangeSubField(sf)
    \/ \E nv \in FormNullValues : ChangeNullValue(nv)
SpecForm == InitForm /\ [][NextForm]_vars

(***************************************************************************)
(* Properties.                                                             *)
(***************************************************************************)
\* the ids of the events of one kind in a call's history, in order
EventIds(c, kind) ==
    LET sel == SelectSeq(trace[c], LAMBDA e : e[1] = kind)
    IN [i \in DOMAIN sel |-> sel[i][2]]
Ids(c) == args[c].res_ids.ids
Skipped(c) ==
    ~Truthy(args[c].template_txt) \/ ~Compiles(args[c].template_txt)
\* the bindings of a call that evaluates the record id and nothing before it
Bindings(id) ==
    [k \in DOMAIN EvalContext \cup {"object"} |->
        IF k = "object" THEN id ELSE EvalContext[k]]

\* C1: every normal return of _render_template is a dict whose keys are
\* exactly the ids of res_ids and whose values are strings; with an empty
\* or unloadable template text no record is evaluated and every id maps to
\* the empty string.
C1_ResultShape ==
    \A c \in Calls :
        /\ outcome[c].kind = "return" =>
            /\ DOMAIN outcome[c].value = Range(Ids(c))
            /\ \A k \in DOMAIN outcome[c].value : IsStr(outcome[c].value[k])
            /\ Skipped(c) => \A k \in DOMAIN outcome[c].value :
                                outcome[c].value[k] = <<>>
        /\ (pc[c] # "idle" /\ Skipped(c)) => EventIds(c, "eval") = <<>>
C1_Witness ==
    /\ outcome[1].kind = "return"
    /\ args[1].template_txt = T_bad
    /\ args[1].post_process
    /\ Ids(1) = <<2, 1>>

\* C2: a render call whose res_ids holds None raises a ValueError, whatever
\* the template text, and returns no dict.
C2_NoneAlwaysRaises ==
    \A c \in Calls :
        (pc[c] = "done" /\ args[c].res_ids.isList /\ None \in Range(Ids(c)))
            => (outcome[c].kind = "raise" /\ outcome[c].exc = "ValueError")

\* C3: with res_ids not a list or tuple, or an engine other than jinja, the
\* call raises a ValueError before any template is loaded, any record
\* browsed or evaluated, any string post-processed.
C3_InvalidArgsRaiseFirst ==
    \A c \in Calls :
        (pc[c] # "idle" /\ (~args[c].res_ids.isList \/ args[c].engine # "jinja"))
            => /\ pc[c] \in {"validate", "done"}
               /\ trace[c] = <<>>
               /\ results[c] = EmptyDict
               /\ pc[c] = "done" =>
                    (outcome[c].kind = "raise" /\ outcome[c].exc = "ValueError")
C3_Witness ==
    /\ pc[1] = "done"
    /\ outcome[1].kind = "raise"
    /\ args[1].engine = "qweb"
    /\ args[1].template_txt = T_name
    /\ args[1].post_process
    /\ Ids(1) = <<1, 2>>

\* positions of res_ids whose record the loaded template cannot render
Failing(c) ==
    {i \in DOMAIN Ids(c) :
        ~TemplateRender(args[c].template_txt, Bindings(Ids(c)[i]),
                        ~args[c].safe).ok}
FirstFailing(c) == CHOOSE i \in Failing(c) : \A j \in Failing(c) : i <= j
Evaluable(c) ==
    ValidArgs(args[c]) /\ ~Skipped(c) /\ None \notin Range(Ids(c))

\* C4: when evaluation raises for the record at position k of the batch, the
\* call raises a UserError carrying the underlying message: records 1..k
\* were evaluated in order, none after k, nothing is post-processed and no
\* dict is returned.
C4_FailWholeBatch ==
    \A c \in Calls :
        (pc[c] # "idle" /\ Evaluable(c) /\ Failing(c) # {}) =>
            /\ outcome[c].kind # "return"
            /\ Len(EventIds(c, "eval")) <= FirstFailing(c)
            /\ EventIds(c, "eval") = SubSeq(Ids(c), 1, Len(EventIds(c, "eval")))
            /\ EventIds(c, "postprocess") = <<>>
            /\ pc[c] = "done" =>
                /\ outcome[c] = Raise("UserError",
                       <<"Failed to render template : ",
                         "Record does not exist or has been deleted.">>)
                /\ Len(EventIds(c, "eval")) = FirstFailing(c)
C4_Witness ==
    /\ pc[1] = "done"
    /\ outcome[1].kind = "raise"
    /\ outcome[1].exc = "UserError"
    /\ Ids(1) = <<1, 4, 2>>
    /\ args[1].post_process
    /\ results[1][1] # <<>>

\* every "eval" event of the history precedes every "postprocess" event
EvalsBeforePostprocess(c) ==
    \A i, j \in DOMAIN trace[c] :
        (trace[c][i][1] = "postprocess" /\ trace[c][j][1] = "eval") => j < i

\* C5 as stated: post-processing is invoked only when requested and only
\* after every record of the batch has been evaluated successfully (read on
\* the calls whose res_ids holds no None, which C2 is about).
C5_OnlyAfterAllEvaluated ==
    \A c \in Calls :
        (EventIds(c, "postprocess") # <<>> /\ None \notin Range(Ids(c))) =>
            /\ args[c].post_process
            /\ EventIds(c, "eval") = Ids(c)
            /\ EvalsBeforePostprocess(c)

\* C5 as amended: post-processing is invoked only when requested and only
\* after _render_template_jinja has returned: every record of the batch
\* evaluated successfully, or none evaluated because the template text is
\* empty or does not load.  No post-processing call precedes an evaluation,
\* none happens in a call that raises, and each call rewrites the string of
\* one further key of the dict, whose keys stay the ids of res_ids.
C5_OnlyAfterRendering ==
    \A c \in Calls :
        /\ (pc[c] = "postprocess" \/ EventIds(c, "postprocess") # <<>>) =>
            /\ args[c].post_process
            /\ ValidArgs(args[c])
            /\ outcome[c].kind # "raise"
            /\ \/ EventIds(c, "eval") = Ids(c)
               \/ Skipped(c) /\ EventIds(c, "eval") = <<>>
            /\ EvalsBeforePostprocess(c)
            /\ DOMAIN results[c] = Range(Ids(c))
            /\ EventIds(c, "postprocess")
                 = SubSeq(KeyOrder(Ids(c)), 1, Len(EventIds(c, "postprocess")))
        /\ outcome[c].kind = "raise" => EventIds(c, "postprocess") = <<>>
C5_Witness ==
    /\ pc[1] = "postprocess"
    /\ args[1].template_txt = T_link
    /\ ~args[1].safe
    /\ Ids(1) = <<2, 1, 2>>
    /\ EventIds(1, "postprocess") = <<2>>
    /\ results[1][2] = <<"href='http://base/web'", "&lt;", "Bob", "&gt;">>
    /\ results[1][1] = <<"href='/web'", "Ann">>

\* what a call with the inputs a and the single id returns for that id
RenderedAlone(a, id) ==
    LET r == TemplateRender(a.template_txt, Bindings(id), ~a.safe)
        text == IF r.out = <<"False">> THEN <<>> ELSE r.out
    IN IF a.post_process THEN ReplaceLocalLinks(text) ELSE text

\* C6: whatever the interleaving of concurrent calls on the same template
\* text and disjoint ids, and whatever the position of an id in its batch,
\* the string returned for an id is the one a call on that id alone returns;
\* the 'object' a record was evaluated with is that record.
C6_NoLeak ==
    \A c \in Calls :
        /\ outcome[c].kind = "return" =>
            \A id \in DOMAIN outcome[c].value :
                outcome[c].value[id] = RenderedAlone(args[c], id)
        /\ (pc[c] \in {"loop", "rendered", "postprocess"} /\ idx[c] > 1) =>
            variables[c]["object"] = records[c][idx[c] - 1]
C6_Witness ==
    /\ outcome[1].kind = "return"
    /\ Ids(1) = <<2, 1>>
    /\ args[1].template_txt = T_name
    /\ args[2].template_txt = T_name
    /\ Ids(2) = <<3, 4>>
    /\ pc[2] = "loop"
    /\ idx[2] = 2

Present(v) == v # PyFalse /\ Len(v) > 0

\* C8: _build_expression returns "" when field_name is empty or absent, and
\* otherwise "${object." + field_name, then "." + sub_field_name iff that is
\* present, then " or '''" + null_value + "'''" iff that is present, then "}".
C8_BuildExpression ==
    /\ built =>
        expression =
            IF ~Present(field_name) THEN <<>>
            ELSE Concat(<<
                S_open, field_name,
                IF Present(sub_field_name) THEN <<".">> \o sub_field_name
                                           ELSE <<>>,
                IF Present(null_arg)
                    THEN <<" ", "o", "r", " ", "'", "'", "'">> \o null_arg
                         \o <<"'", "'", "'">>
                    ELSE <<>>,
                <<"}">> >>)
    /\ BuildExpression(S_name, PyFalse, PyFalse)
         = <<"$", "{", "o", "b", "j", "e", "c", "t", ".", "n", "a", "m", "e", "}">>
    /\ BuildExpression(S_partner_id, S_email, PyFalse)
         = <<"$", "{", "o", "b", "j", "e", "c", "t", ".",
             "p", "a", "r", "t", "n", "e", "r", "_", "i", "d", ".",
             "e", "m", "a", "i", "l", "}">>
    /\ BuildExpression(S_name, PyFalse, S_NA)
         = <<"$", "{", "o", "b", "j", "e", "c", "t", ".", "n", "a", "m", "e",
             " ", "o", "r", " ", "'", "'", "'", "N", "/", "A", "'", "'", "'",
             "}">>
C8_Witness ==
    /\ built
    /\ field_name = S_partner_id
    /\ sub_field_name = S_email
    /\ null_arg = <<"N", "}">>

\* the positions of e, from position `from` on, where ''' starts
QuotesAt(e, from) ==
    {i \in from..(Len(e) - 2) : SubSeq(e, i, i + 2) = S_quotes}
Least(S) == CHOOSE i \in S : \A j \in S : i <= j

\* C9: the default literal is embedded safely quoted: after the opening ''',
\* the string literal ends only at the builder's own closing ''' (the three
\* characters before the final "}"), and "}" occurs after the opening '''
\* only as the final character of the expression.
C9_SafelyQuoted ==
    (built /\ Present(field_name) /\ Present(null_arg)) =>
        LET open == Least(QuotesAt(expression, 1))
        IN /\ Least(QuotesAt(expression, open + 3)) = Len(expression) - 3
           /\ \A i \in (open + 3)..Len(expression) :
                expression[i] = "}" => i = Len(expression)

Relational(f) == f.ttype \in {"many2one", "one2many", "many2many"}

\* C10: after every run of _onchange_dynamic_placeholder: with no field
\* selected, sub-model, sub-field, default and expression are cleared; with
\* a non-relational field, sub-model and sub-field are cleared and the
\* expression is _build_expression(field, False, default); with a relational
\* field, the sub-model is the model of the field's relation and the
\* expression is _build_expression(field, sub-field, default).
C10_Reduced ==
    IF model_object_field = NoField
    THEN /\ sub_object = NoModel
         /\ sub_model_object_field = NoField
         /\ null_value = PyFalse
         /\ copyvalue = PyFalse
    ELSE IF ~Relational(model_object_field)
    THEN /\ sub_object = NoModel
         /\ sub_model_object_field = NoField
         /\ copyvalue = BuildExpression(model_object_field.name, PyFalse,
                                        OrFalse(null_value))
    ELSE /\ sub_object = model_object_field.relation
         /\ copyvalue = BuildExpression(model_object_field.name,
                                        sub_model_object_field.name,
                                        OrFalse(null_value))

=============================================================================
